---- MODULE Spec2Model ----
(***************************************************************************)
(* Call-session lifecycle of the voice agents of newport-rentals:          *)
(*   inbound  = apps/open-source/agent/main.py                             *)
(*   outbound = apps/open-source/agent/outbound-main.py                    *)
(*   booking  = apps/open-source/token-server/google_calendar_agent.py     *)
(* One entrypoint coroutine per call on a cooperative event loop, the room *)
(* and session callbacks that run while it is suspended in an await, and   *)
(* the detached _process_submission tasks that submit_lead_form creates.   *)
(***************************************************************************)
EXTENDS Integers, Sequences, FiniteSets, TLC

\* ---------------------------------------------------------------- bounds
MaxEvents == 2    \* callbacks / RPC invocations delivered during one call
MaxTasks == 1     \* submit_lead_form invocations during one call

\* ------------------------------------------------------- program constants
AgentKinds == {"inbound", "outbound", "booking"}

\* lines passed to session.say by _process_submission
THANKS == "Thank you. Your information has been sent. Was there anything else I can help you with today?"
ERR_SENDING == "I'm sorry, there was an error sending your information."
ERR_TECHNICAL == "I'm sorry, a technical error occurred."
ERR_CONFIG == "I'm sorry, there is a configuration error and I can't save your information."

\* webhook response statuses tried (both edges of the 2xx class and beyond)
Statuses == {199, 200, 299, 300, 500}
NetworkError == -1            \* the POST raised instead of answering
NoStatus == 0                 \* no HTTP exchange (yet)
Payloads == {"json", "malformed"}
UserStates == {"away", "speaking"}
TrackKinds == {"audio", "video"}

\* environment variables the worker's __main__ block requires
LiveKitVars == {"LIVEKIT_URL", "LIVEKIT_API_KEY", "LIVEKIT_API_SECRET"}

VARIABLES
    agentKind,          \* which entrypoint runs this call
    livekitEnv,         \* the LiveKitVars that are set to a non-empty string
    webhookUrlSet,      \* WEBHOOK_URL is a non-empty string
    ttsAvailable,       \* proc.userdata["tts_default"] is not None
    pc,                 \* statement the entrypoint coroutine is at
    session_ended,      \* asyncio.Event session_ended
    greeting_allowed,   \* asyncio.Event greeting_allowed
    is_form_displayed,  \* agent._is_form_displayed (core_agent.BusinessAgent)
    sessionState,       \* AgentSession: none / created / started / closed
    rpcRegistered,      \* submit_lead_form registered on the local participant
    excLogged,          \* the entrypoint's except clause ran
    passedWait,         \* await session_ended.wait() returned
    calls,              \* vendor calls made by the entrypoint and by the RPC
                        \* handler, in order
    tasks,              \* the _process_submission tasks created so far
    rpcResults,         \* what each submit_lead_form_handler call gave its caller
    nEvents,            \* number of callbacks delivered so far
    lastEvent           \* the callback delivered last (a disconnect with the
                        \* await the entrypoint was suspended in)

agentVars == <<agentKind, livekitEnv, webhookUrlSet, ttsAvailable, pc,
               session_ended, greeting_allowed, is_form_displayed, sessionState,
               rpcRegistered, excLogged, passedWait, calls, tasks, rpcResults,
               nEvents, lastEvent>>

\* ---- job intake: a dispatched job, the worker's request_fnc, the script
VARIABLES
    job,                \* the job request: room name and the agent_name it
                        \* was dispatched to
    routerPc,           \* idle / request / entry / rejected / failed / routed
    reqCalls,           \* the accept and reject calls request_fnc made
    script              \* instructions and greeting the entrypoint selected

routerVars == <<job, routerPc, reqCalls, script>>

\* ---- token server: one request to one of its endpoints
VARIABLES
    srvEnv,             \* which of the server's settings are present
    request,            \* the request being handled
    srvPc,              \* statement the endpoint handler is at
    extCalls,           \* calls to LiveKit, Supabase and the calendar made so
                        \* far, in order, each with whether it succeeded
    prospect,           \* local variable prospect of make_call: unbound /
                        \* none / found
    calendarFree,       \* the slots the calendar service returned
    response,           \* the HTTP response
    toolReply           \* what the booking agent's tool returns to its caller

serverVars == <<srvEnv, request, srvPc, extCalls, prospect, calendarFree,
                response, toolReply>>

\* ---- calendar service: one call of check_availability
VARIABLES
    calArgs,            \* start_date, end_date, duration_minutes of the call
    calPc,              \* statement check_availability is at
    busy_times,         \* the busy intervals the freebusy query returned
    current_time,       \* start of the slot the loop looks at
    available_slots     \* the slots collected so far; at the end, the result

calVars == <<calArgs, calPc, busy_times, current_time, available_slots>>

otherProcs == <<routerVars, serverVars, calVars>>

vars == <<agentVars, otherProcs>>

config == <<agentKind, livekitEnv, webhookUrlSet, ttsAvailable>>
entryVars == <<pc, sessionState, rpcRegistered, excLogged, passedWait, calls>>
eventVars == <<nEvents, lastEvent>>

NoEvent == [type |-> "none", arg |-> "none"]

\* statements at which the coroutine is suspended in an await, so that the
\* event loop can run callbacks and other tasks
AwaitPoints == {"connect", "start", "sleep", "wait_greeting", "greet", "wait", "aclose"}

AgentInit ==
    /\ agentKind \in AgentKinds
    \* the booking agent's __main__ block reads no environment variable
    /\ livekitEnv \in (IF agentKind = "booking" THEN {LiveKitVars}
                                                ELSE SUBSET LiveKitVars)
    \* the booking agent reads no WEBHOOK_URL and builds its own TTS client
    /\ webhookUrlSet \in (IF agentKind = "booking" THEN {FALSE} ELSE BOOLEAN)
    /\ ttsAvailable \in (IF agentKind = "booking" THEN {TRUE} ELSE BOOLEAN)
    /\ pc = "main"
    /\ session_ended = FALSE
    /\ greeting_allowed = FALSE
    /\ is_form_displayed = FALSE
    /\ sessionState = "none"
    /\ rpcRegistered = FALSE
    /\ excLogged = FALSE
    /\ passedWait = FALSE
    /\ calls = <<>>
    /\ tasks = <<>>
    /\ rpcResults = <<>>
    /\ nEvents = 0
    /\ lastEvent = NoEvent

NoJob == [room_name |-> <<>>, agent_name |-> "none", origin |-> "none"]
NoScript == [instructions |-> "none", greeting |-> "none"]

RouterIdle ==
    /\ job = NoJob
    /\ routerPc = "idle"
    /\ reqCalls = <<>>
    /\ script = NoScript

NoRequest == [endpoint |-> "none"]
NoResponse == [status |-> 0]
NoReply == [text |-> "none", times |-> <<>>]

ServerStart ==
    /\ request = NoRequest
    /\ srvPc = "idle"
    /\ extCalls = <<>>
    /\ prospect = "unbound"
    /\ calendarFree = <<>>
    /\ response = NoResponse
    /\ toolReply = NoReply

ServerIdle ==
    /\ srvEnv = [livekit |-> FALSE, sip_trunk |-> FALSE, supabase |-> FALSE]
    /\ ServerStart

NoArgs == [start |-> 0, end |-> 0, duration |-> 0, aware |-> TRUE]

CalStart ==
    /\ calPc = "called"
    /\ busy_times = <<>>
    /\ current_time = 0
    /\ available_slots = <<>>

CalIdle == calArgs = NoArgs /\ CalStart

OthersIdle == RouterIdle /\ ServerIdle /\ CalIdle

Init == AgentInit /\ OthersIdle

\* the agent process before it is started, while another process is looked at
AgentIdle ==
    /\ agentKind = "inbound"
    /\ livekitEnv = LiveKitVars
    /\ webhookUrlSet = FALSE
    /\ ttsAvailable = FALSE
    /\ pc = "main"
    /\ session_ended = FALSE
    /\ greeting_allowed = FALSE
    /\ is_form_displayed = FALSE
    /\ sessionState = "none"
    /\ rpcRegistered = FALSE
    /\ excLogged = FALSE
    /\ passedWait = FALSE
    /\ calls = <<>>
    /\ tasks = <<>>
    /\ rpcResults = <<>>
    /\ nEvents = 0
    /\ lastEvent = NoEvent

\* ------------------------------------------------------------- __main__
\* EnvComplete that tests LIVEKIT_URL alone
EnvComplete_UrlOnly(kind, env) == kind = "booking" \/ "LIVEKIT_URL" \in env

\* not (not livekit_url or not livekit_api_key or not livekit_api_secret);
\* the booking agent makes no such test
EnvComplete(kind, env) == kind = "booking" \/ LiveKitVars \subseteq env

\* if not livekit_url or ...: exit(1);  agents.cli.run_app(WorkerOptions(...))
Main ==
    /\ pc = "main"
    /\ IF EnvComplete(agentKind, livekitEnv)
       THEN pc' = "request" /\ calls' = Append(calls, "run_app")
       ELSE pc' = "exit1" /\ calls' = calls
    /\ UNCHANGED <<config, otherProcs, session_ended, greeting_allowed,
                   is_form_displayed, sessionState, rpcRegistered, excLogged,
                   passedWait, tasks, rpcResults, eventVars>>

\* first statement of the entrypoint
EntryPc(kind) == IF kind = "booking" THEN "connect" ELSE "template"

\* request_fnc: await req.accept(identity=...), after which the job process
\* runs the entrypoint
AcceptJob ==
    /\ pc = "request"
    /\ calls' = Append(calls, "accept")
    /\ pc' = EntryPc(agentKind)
    /\ UNCHANGED <<config, otherProcs, session_ended, greeting_allowed,
                   is_form_displayed, sessionState, rpcRegistered, excLogged,
                   passedWait, tasks, rpcResults, eventVars>>

\* ------------------------------------------------------------ entrypoint
Outcomes == {"ok", "raise"}

\* session.say needs a TTS client: without one the call raises
SayOutcomes == IF ttsAvailable THEN {"ok", "raise"} ELSE {"raise"}

\* ExceptPc without the except clause: the exception leaves the entrypoint
ExceptPc_Uncaught(kind) == "raised"

\* ExceptPc without the finally clause: the exception path returns at once
ExceptPc_NoFinally(kind) == "done"

\* where an exception raised inside the try block continues
ExceptPc(kind) == IF kind = "booking" THEN "except_shutdown" ELSE "shutdown"

\* except Exception as e: logging.error(...)
Raise ==
    /\ excLogged' = TRUE
    /\ pc' = ExceptPc(agentKind)

\* with open("prompt.template") ...; instructions = ...substitute(...)
ReadTemplate(o) ==
    /\ pc = "template"
    /\ IF o = "ok" THEN pc' = "connect" /\ excLogged' = excLogged ELSE Raise
    /\ UNCHANGED <<config, otherProcs, session_ended, greeting_allowed, is_form_displayed,
                   sessionState, rpcRegistered, passedWait, calls, tasks,
                   rpcResults, eventVars>>

\* await ctx.connect()
Connect(o) ==
    /\ pc = "connect"
    /\ calls' = Append(calls, "connect")
    /\ IF o = "ok" THEN pc' = "models" /\ excLogged' = excLogged ELSE Raise
    /\ UNCHANGED <<config, otherProcs, session_ended, greeting_allowed, is_form_displayed,
                   sessionState, rpcRegistered, passedWait, tasks, rpcResults,
                   eventVars>>

\* stt, llm, vad, tts; session = AgentSession(...); agent = ...Agent(...);
\* @session.on("user_state_changed")
InitModels(o) ==
    /\ pc = "models"
    /\ IF o = "ok"
       THEN /\ pc' = "start"
            /\ sessionState' = "created"
            /\ excLogged' = excLogged
       ELSE /\ Raise
            /\ sessionState' = sessionState
    /\ UNCHANGED <<config, otherProcs, session_ended, greeting_allowed, is_form_displayed,
                   rpcRegistered, passedWait, calls, tasks, rpcResults, eventVars>>

\* statement after session.start
AfterStartPc(kind) == IF kind = "booking" THEN "wait_greeting" ELSE "register_rpc"

\* await session.start(room=ctx.room, agent=agent)
SessionStart(o) ==
    /\ pc = "start"
    /\ calls' = Append(calls, "start")
    /\ IF o = "ok"
       THEN /\ pc' = AfterStartPc(agentKind)
            /\ sessionState' = "started"
            /\ excLogged' = excLogged
       ELSE /\ Raise
            /\ sessionState' = sessionState
    /\ UNCHANGED <<config, otherProcs, session_ended, greeting_allowed, is_form_displayed,
                   rpcRegistered, passedWait, tasks, rpcResults, eventVars>>

\* statement after register_rpc_method: the inbound agent greets at once when
\* it has a TTS client and otherwise only logs; the outbound agent sleeps 3 s
AfterRegisterPc(kind, tts) ==
    IF kind = "outbound" THEN "sleep"
    ELSE IF tts THEN "greet" ELSE "wait"

\* ctx.room.local_participant.register_rpc_method("submit_lead_form", ...)
RegisterRpc(o) ==
    /\ pc = "register_rpc"
    /\ IF o = "ok"
       THEN /\ pc' = AfterRegisterPc(agentKind, ttsAvailable)
            /\ rpcRegistered' = TRUE
            /\ excLogged' = excLogged
       ELSE /\ Raise
            /\ rpcRegistered' = rpcRegistered
    /\ UNCHANGED <<config, otherProcs, session_ended, greeting_allowed, is_form_displayed,
                   sessionState, passedWait, calls, tasks, rpcResults, eventVars>>

\* await asyncio.sleep(3)   (outbound)
Sleep ==
    /\ pc = "sleep"
    /\ pc' = "greet"
    /\ UNCHANGED <<config, otherProcs, session_ended, greeting_allowed, is_form_displayed,
                   sessionState, rpcRegistered, excLogged, passedWait, calls,
                   tasks, rpcResults, eventVars>>

\* await asyncio.wait_for(greeting_allowed.wait(), timeout=20.0)   (booking)
\* except asyncio.TimeoutError: session_ended.set()
WaitGreeting ==
    /\ pc = "wait_greeting"
    /\ IF greeting_allowed
       THEN pc' = "greet" /\ session_ended' = session_ended
       ELSE pc' = "wait" /\ session_ended' = TRUE
    /\ UNCHANGED <<config, otherProcs, greeting_allowed, is_form_displayed, sessionState,
                   rpcRegistered, excLogged, passedWait, calls, tasks,
                   rpcResults, eventVars>>

\* await session.say(<greeting>, allow_interruptions=True)
Greet(o) ==
    /\ pc = "greet"
    /\ o \in SayOutcomes
    /\ calls' = Append(calls, "say")
    /\ IF o = "ok" THEN pc' = "wait" /\ excLogged' = excLogged ELSE Raise
    /\ UNCHANGED <<config, otherProcs, session_ended, greeting_allowed, is_form_displayed,
                   sessionState, rpcRegistered, passedWait, tasks, rpcResults,
                   eventVars>>

\* await session_ended.wait(): returns once the event is set, at once when it
\* was set before the wait began
Wait ==
    /\ pc = "wait"
    /\ session_ended
    /\ pc' = "aclose"
    /\ passedWait' = TRUE
    /\ UNCHANGED <<config, otherProcs, session_ended, greeting_allowed, is_form_displayed,
                   sessionState, rpcRegistered, excLogged, calls, tasks,
                   rpcResults, eventVars>>

\* await session.aclose()
Aclose(o) ==
    /\ pc = "aclose"
    /\ calls' = Append(calls, "aclose")
    /\ sessionState' = "closed"
    /\ IF o = "ok" THEN pc' = "shutdown" /\ excLogged' = excLogged ELSE Raise
    /\ UNCHANGED <<config, otherProcs, session_ended, greeting_allowed, is_form_displayed,
                   rpcRegistered, passedWait, tasks, rpcResults, eventVars>>

\* finally: ctx.shutdown()   (inbound, outbound)
\* ctx.shutdown() as the last statement   (booking)
Shutdown ==
    /\ pc = "shutdown"
    /\ calls' = Append(calls, "shutdown")
    /\ pc' = "done"
    /\ UNCHANGED <<config, otherProcs, session_ended, greeting_allowed, is_form_displayed,
                   sessionState, rpcRegistered, excLogged, passedWait, tasks,
                   rpcResults, eventVars>>

\* ExceptReturnPc without the return: control falls through to the last statement
ExceptReturnPc_FallThrough == "shutdown"

\* where the booking agent's except clause goes after its ctx.shutdown(): return
ExceptReturnPc == "done"

\* except Exception: ...; ctx.shutdown(); return   (booking)
ExceptShutdown ==
    /\ pc = "except_shutdown"
    /\ calls' = Append(calls, "shutdown")
    /\ pc' = ExceptReturnPc
    /\ UNCHANGED <<config, otherProcs, session_ended, greeting_allowed, is_form_displayed,
                   sessionState, rpcRegistered, excLogged, passedWait, tasks,
                   rpcResults, eventVars>>

\* ------------------------------------------------- room and session callbacks
\* participant identities by how they begin (str.startswith)
Identities == {"chat-to-form-agent", "newport-rentals", "user"}

\* the identity prefix on_track_subscribed takes for the agent itself
AgentPrefix(kind) == IF kind = "booking" THEN "newport-rentals" ELSE "chat-to-form-agent"

\* TrackAllowsGreeting without the identity test
TrackAllowsGreeting_AnyAudio(kind, trackKind, identity) == trackKind = "audio"

\* on_track_subscribed: whether this track sets greeting_allowed
TrackAllowsGreeting(kind, trackKind, identity) ==
    trackKind = "audio" /\ identity # AgentPrefix(kind)

\* callbacks run only while the entrypoint is suspended in an await
CanDeliver == pc \in AwaitPoints /\ nEvents < MaxEvents

Delivered(type, arg) ==
    /\ nEvents' = nEvents + 1
    /\ lastEvent' = [type |-> type, arg |-> arg]

\* @ctx.room.on("track_subscribed")   (inbound, booking)
OnTrackSubscribed(trackKind, identity) ==
    /\ CanDeliver
    /\ agentKind \in {"inbound", "booking"}
    /\ greeting_allowed' =
         (greeting_allowed \/ TrackAllowsGreeting(agentKind, trackKind, identity))
    /\ Delivered("track_subscribed", trackKind \o ":" \o identity)
    /\ UNCHANGED <<config, otherProcs, entryVars, session_ended, is_form_displayed, tasks,
                   rpcResults>>

\* on_participant_disconnected that only logs and never sets the event
OnParticipantDisconnected_NoSet ==
    /\ CanDeliver
    /\ Delivered("participant_disconnected", pc)
    /\ UNCHANGED <<config, otherProcs, entryVars, session_ended, greeting_allowed,
                   is_form_displayed, tasks, rpcResults>>

\* @ctx.room.on("participant_disconnected"): session_ended.set()
OnParticipantDisconnected ==
    /\ CanDeliver
    /\ session_ended' = TRUE
    /\ Delivered("participant_disconnected", pc)
    /\ UNCHANGED <<config, otherProcs, entryVars, greeting_allowed, is_form_displayed, tasks,
                   rpcResults>>

\* whether on_user_state_changed reads agent._is_form_displayed: the booking
\* agent's handler does not
ChecksForm(kind) == kind # "booking"

\* UserStateEnds without the first if: away always ends the session
UserStateEnds_NoFormCheck(kind, new_state, form, ended) ==
    IF new_state = "away" THEN TRUE ELSE ended

\* on_user_state_changed: the new value of session_ended
UserStateEnds(kind, new_state, form, ended) ==
    IF new_state = "away" /\ ChecksForm(kind) /\ form THEN ended
    ELSE IF new_state = "away" THEN TRUE
    ELSE ended

\* @session.on("user_state_changed")
OnUserStateChanged(new_state) ==
    /\ CanDeliver
    /\ sessionState = "started"
    /\ session_ended' =
         UserStateEnds(agentKind, new_state, is_form_displayed, session_ended)
    /\ Delivered("user_state_changed", new_state)
    /\ UNCHANGED <<config, otherProcs, entryVars, greeting_allowed, is_form_displayed, tasks,
                   rpcResults>>

\* the agent shows the lead form to the caller: core_agent.BusinessAgent sets
\* the form-displayed flag of the call session (section 3 of the specification)
DisplayForm ==
    /\ pc \in AwaitPoints
    /\ agentKind # "booking"
    /\ sessionState = "started"
    /\ ~is_form_displayed
    /\ is_form_displayed' = TRUE
    /\ UNCHANGED <<config, otherProcs, entryVars, session_ended, greeting_allowed, tasks,
                   rpcResults, eventVars>>

\* ------------------------------------------------------ submit_lead_form
\* NewTask of a handler that awaits the dispatch: it returns with the POST sent
NewTask_Awaited(payload) ==
    [payload |-> payload, pc |-> "post", status |-> NoStatus,
     says |-> <<>>, posts |-> 1]

\* asyncio.create_task(_process_submission()): the task has not run yet
NewTask(payload) ==
    [payload |-> payload, pc |-> "created", status |-> NoStatus,
     says |-> <<>>, posts |-> 0]

\* what submit_lead_form_handler gives the remote peer
HandlerResult(payload) == "SUCCESS"

\* async def submit_lead_form_handler(data): session.interrupt();
\* asyncio.create_task(_process_submission()); return "SUCCESS"
SubmitLeadForm(payload) ==
    /\ pc \in AwaitPoints
    /\ rpcRegistered
    /\ Len(tasks) < MaxTasks
    /\ calls' = Append(calls, "interrupt")
    /\ tasks' = Append(tasks, NewTask(payload))
    /\ rpcResults' = Append(rpcResults, HandlerResult(payload))
    /\ UNCHANGED <<config, otherProcs, pc, sessionState, rpcRegistered, excLogged,
                   passedWait, session_ended, greeting_allowed,
                   is_form_displayed, eventVars>>

\* a detached task runs while the entrypoint is suspended or has returned
CanRunTask(i) == i \in 1..Len(tasks) /\ pc \in AwaitPoints \cup {"done"}

Say(t, line) == [t EXCEPT !.pc = "say", !.says = Append(t.says, line)]

\* _process_submission up to its first await
BeginTask(t, urlSet) ==
    IF ~urlSet THEN Say(t, ERR_CONFIG)
    ELSE IF t.payload = "malformed" THEN Say(t, ERR_TECHNICAL)
    ELSE [t EXCEPT !.pc = "post", !.posts = t.posts + 1]

\* agent._is_form_displayed after _process_submission has begun
FormAfterBegin(urlSet, form) == IF ~urlSet THEN form ELSE FALSE

TaskBegin(i) ==
    /\ CanRunTask(i)
    /\ tasks[i].pc = "created"
    /\ tasks' = [tasks EXCEPT ![i] = BeginTask(tasks[i], webhookUrlSet)]
    /\ is_form_displayed' = FormAfterBegin(webhookUrlSet, is_form_displayed)
    /\ UNCHANGED <<config, otherProcs, entryVars, session_ended, greeting_allowed,
                   rpcResults, eventVars>>

\* ResponseLine with the upper edge of the 2xx class off by one
ResponseLine_Upto300(status) ==
    IF 200 <= status /\ status <= 300 THEN THANKS ELSE ERR_SENDING

\* if 200 <= response.status < 300: ... else: ...
ResponseLine(status) ==
    IF 200 <= status /\ status < 300 THEN THANKS ELSE ERR_SENDING

\* AfterResponse that speaks the non-2xx line for a failed POST too
AfterResponse_OneLine(t, r) ==
    IF r = NetworkError
    THEN Say([t EXCEPT !.status = r], ERR_SENDING)
    ELSE Say([t EXCEPT !.status = r], ResponseLine(r))

\* AfterResponse that posts once more when the first answer is not 2xx
AfterResponse_Retry(t, r) ==
    IF r = NetworkError
    THEN Say([t EXCEPT !.status = r], ERR_TECHNICAL)
    ELSE IF ResponseLine(r) = ERR_SENDING /\ t.posts < 2
    THEN [t EXCEPT !.status = r, !.posts = t.posts + 1]
    ELSE Say([t EXCEPT !.status = r], ResponseLine(r))

\* the POST answers with a status or raises
AfterResponse(t, r) ==
    IF r = NetworkError
    THEN Say([t EXCEPT !.status = r], ERR_TECHNICAL)
    ELSE Say([t EXCEPT !.status = r], ResponseLine(r))

TaskResponse(i, r) ==
    /\ CanRunTask(i)
    /\ tasks[i].pc = "post"
    /\ tasks' = [tasks EXCEPT ![i] = AfterResponse(tasks[i], r)]
    /\ UNCHANGED <<config, otherProcs, entryVars, session_ended, greeting_allowed,
                   is_form_displayed, rpcResults, eventVars>>

\* lines said inside the try block: a failing say is caught there
InTry(line) == line \in {THANKS, ERR_SENDING}

\* await session.say(...) returns or raises
AfterSay(t, o) ==
    IF o = "ok" THEN [t EXCEPT !.pc = "finished"]
    ELSE IF InTry(t.says[Len(t.says)]) THEN Say(t, ERR_TECHNICAL)
    ELSE [t EXCEPT !.pc = "raised"]

TaskSayDone(i, o) ==
    /\ CanRunTask(i)
    /\ tasks[i].pc = "say"
    /\ o \in SayOutcomes
    /\ tasks' = [tasks EXCEPT ![i] = AfterSay(tasks[i], o)]
    /\ UNCHANGED <<config, otherProcs, entryVars, session_ended, greeting_allowed,
                   is_form_displayed, rpcResults, eventVars>>

\* ------------------------------------------------------------ specification
Next ==
    \/ Main
    \/ AcceptJob
    \/ \E o \in Outcomes : ReadTemplate(o)
    \/ \E o \in Outcomes : Connect(o)
    \/ \E o \in Outcomes : InitModels(o)
    \/ \E o \in Outcomes : SessionStart(o)
    \/ \E o \in Outcomes : RegisterRpc(o)
    \/ Sleep
    \/ WaitGreeting
    \/ \E o \in Outcomes : Greet(o)
    \/ Wait
    \/ \E o \in Outcomes : Aclose(o)
    \/ Shutdown
    \/ ExceptShutdown
    \/ \E k \in TrackKinds, id \in Identities : OnTrackSubscribed(k, id)
    \/ OnParticipantDisconnected
    \/ \E s \in UserStates : OnUserStateChanged(s)
    \/ DisplayForm
    \/ \E p \in Payloads : SubmitLeadForm(p)
    \/ \E i \in 1..MaxTasks : TaskBegin(i)
    \/ \E i \in 1..MaxTasks, r \in Statuses \cup {NetworkError} : TaskResponse(i, r)
    \/ \E i \in 1..MaxTasks, o \in Outcomes : TaskSayDone(i, o)

Spec == Init /\ [][Next]_vars

\* the worker starts, a job arrives and is accepted, and the event loop resumes
\* the entrypoint whenever the await it is suspended in
\* has completed (a vendor call returns or raises, a timer fires, an Event is set)
EntrypointStep ==
    \/ Main
    \/ AcceptJob
    \/ \E o \in Outcomes : ReadTemplate(o)
    \/ \E o \in Outcomes : Connect(o)
    \/ \E o \in Outcomes : InitModels(o)
    \/ \E o \in Outcomes : SessionStart(o)
    \/ \E o \in Outcomes : RegisterRpc(o)
    \/ Sleep
    \/ WaitGreeting
    \/ \E o \in Outcomes : Greet(o)
    \/ Wait
    \/ \E o \in Outcomes : Aclose(o)
    \/ Shutdown
    \/ ExceptShutdown

FairSpec == Init /\ [][Next]_vars /\ WF_vars(EntrypointStep)

\* ------------------------------------------------------------ job intake
MaxWords == 3     \* words in a room name

\* a room name is the sequence of its words (newport_outbound_1a2b3c4d is
\* <<"newport", "outbound", "1a2b3c4d">>); words in both letter cases
Words == {"newport", "Newport", "outbound", "OUTBOUND", "devin", "demo"}
CallIds == {"1a2b3c4d"}       \* uuid.uuid4().hex[:8]
RoomNames == UNION {[1..n -> Words] : n \in 1..MaxWords}
AgentNames == {"newport-rentals", "ashley-outbound"}

\* greetings passed to session.say
NEWPORT_GREETING == "Hi, is this the guest calling about your Newport Beach reservation?"
DEVIN_GREETING == "Hi is this Peter?"
DEFAULT_GREETING == "Thank you for calling Voice Sell AI. How can I help you today?"
OUTBOUND_GREETING == "Hi, is this the right number I'm calling? This is Ashley calling from Newport Beach Vacation Properties. I hope I'm not catching you at a bad time? I'm following up because you showed interest in booking one of our beautiful Newport Beach vacation homes. Do you have a few minutes to chat about your upcoming trip?"

\* str.lower() of one word
LowerWord(w) ==
    CASE w = "Newport" -> "newport"
      [] w = "OUTBOUND" -> "outbound"
      [] OTHER -> w

\* Lower that leaves the letter case alone
Lower_AsIs(name) == name

\* room_name.lower()
Lower(name) == [i \in DOMAIN name |-> LowerWord(name[i])]

\* sub in name
Contains(name, sub) == \E i \in DOMAIN name : name[i] = sub

\* room_name = f"newport_outbound_{uuid.uuid4().hex[:8]}"
MakeCallRoom(id) == <<"newport", "outbound", id>>

\* create_dispatch(CreateAgentDispatchRequest(agent_name="newport-rentals", room=room_name))
MakeCallAgent == "newport-rentals"

\* make_call creates its room and dispatches an agent to it
MakeCallDispatch(id) ==
    /\ routerPc = "idle"
    /\ job' = [room_name |-> MakeCallRoom(id), agent_name |-> MakeCallAgent,
               origin |-> "make_call"]
    /\ routerPc' = "request"
    /\ UNCHANGED <<agentVars, serverVars, calVars, reqCalls, script>>

\* a job for any other room reaches one of the two workers
OtherDispatch(name, agent) ==
    /\ routerPc = "idle"
    /\ job' = [room_name |-> name, agent_name |-> agent, origin |-> "other"]
    /\ routerPc' = "request"
    /\ UNCHANGED <<agentVars, serverVars, calVars, reqCalls, script>>

\* the call request_fnc makes: the inbound worker accepts every job, the
\* outbound worker accepts the rooms whose lowered name contains "outbound"
RequestCall(agent, name) ==
    IF agent = "newport-rentals"
    THEN [call |-> "accept", identity |-> "newport-rentals"]
    ELSE IF Contains(Lower(name), "outbound")
         THEN [call |-> "accept", identity |-> "ashley-outbound"]
         ELSE [call |-> "reject", identity |-> "none"]

\* request_fnc: try: await req.accept(...) / await req.reject()
\* except Exception: logging.error(...); raise
RequestFnc(o) ==
    /\ routerPc = "request"
    /\ reqCalls' = Append(reqCalls, RequestCall(job.agent_name, job.room_name))
    /\ routerPc' = IF o = "raise" THEN "failed"
                   ELSE IF reqCalls'[Len(reqCalls')].call = "accept" THEN "entry"
                   ELSE "rejected"
    /\ UNCHANGED <<agentVars, serverVars, calVars, job, script>>

\* the instructions the entrypoint builds
Instructions(agent, name) ==
    IF agent = "ashley-outbound" THEN "outbound-prompt.template"
    ELSE IF Contains(Lower(name), "devin") THEN "regina"
    ELSE "prompt.template"

\* the greeting the entrypoint passes to session.say
Greeting(agent, name) ==
    IF agent = "ashley-outbound" THEN OUTBOUND_GREETING
    ELSE IF Contains(Lower(name), "newport") THEN NEWPORT_GREETING
    ELSE IF Contains(Lower(name), "devin") THEN DEVIN_GREETING
    ELSE DEFAULT_GREETING

\* the entrypoint of the accepting worker selects its script by ctx.room.name
SelectScript ==
    /\ routerPc = "entry"
    /\ script' = [instructions |-> Instructions(job.agent_name, job.room_name),
                  greeting |-> Greeting(job.agent_name, job.room_name)]
    /\ routerPc' = "routed"
    /\ UNCHANGED <<agentVars, serverVars, calVars, job, reqCalls>>

RouterInit == AgentIdle /\ RouterIdle /\ ServerIdle /\ CalIdle

RouterNext ==
    \/ \E id \in CallIds : MakeCallDispatch(id)
    \/ \E name \in RoomNames, agent \in AgentNames : OtherDispatch(name, agent)
    \/ \E o \in Outcomes : RequestFnc(o)
    \/ SelectScript

RouterSpec == RouterInit /\ [][RouterNext]_vars

\* ------------------------------------------------------------ token server
MaxPhoneLen == 3  \* characters in a phone number
MaxFree == 2      \* free slots the calendar service returns

\* characters of a phone number, one string each
Chars == {"+", "1", "5", " "}
PhoneNumbers == UNION {[1..n -> Chars] : n \in 1..MaxPhoneLen}

HTTP_OK == 200
HTTP_BAD_REQUEST == 400
HTTP_SERVER_ERROR == 500

RECURSIVE LStrip(_)
LStrip(str) == IF str # <<>> /\ Head(str) = " " THEN LStrip(Tail(str)) ELSE str

RECURSIVE RStrip(_)
RStrip(str) ==
    IF str # <<>> /\ str[Len(str)] = " "
    THEN RStrip(SubSeq(str, 1, Len(str) - 1))
    ELSE str

\* Strip that leaves trailing blanks
Strip_LeftOnly(str) == LStrip(str)

\* str.strip()
Strip(str) == LStrip(RStrip(str))

\* str.startswith(c)
StartsWith(str, c) == str # <<>> /\ Head(str) = c

\* phone_number = request.phone_number.strip(); add + or +1 if missing
FormatPhone(phone_number) ==
    LET stripped == Strip(phone_number) IN
    IF StartsWith(stripped, "+") THEN stripped
    ELSE IF StartsWith(stripped, "1") THEN <<"+">> \o stripped
    ELSE <<"+", "1">> \o stripped

ExtCall(name, o) == [call |-> name, ok |-> (o = "ok")]

Respond(status, body) ==
    /\ response' = [status |-> status, body |-> body]
    /\ srvPc' = "responded"

\* make_call: except Exception as e: raise HTTPException(status_code=500, ...)
MakeCallFailed == Respond(HTTP_SERVER_ERROR, [detail |-> "Failed to initiate call"])

\* POST /api/make-call up to its first await: the credentials test, the phone
\* number, the room name and the SIP trunk test
MakeCall(phone_number, id) ==
    /\ srvPc = "idle"
    /\ request' = [endpoint |-> "make_call", phone_number |-> phone_number,
                   dial |-> FormatPhone(phone_number), room_name |-> MakeCallRoom(id)]
    /\ IF ~srvEnv.livekit
       THEN Respond(HTTP_SERVER_ERROR, [detail |-> "LiveKit credentials not configured"])
       ELSE IF ~srvEnv.sip_trunk
       THEN MakeCallFailed
       ELSE response' = response /\ srvPc' = "create_room"
    /\ UNCHANGED <<agentVars, routerVars, calVars, srvEnv, extCalls, prospect,
                   calendarFree, toolReply>>

\* try: await lk_api.room.create_room(...) except Exception: print(...)
CreateRoom(o) ==
    /\ srvPc = "create_room"
    /\ extCalls' = Append(extCalls, ExtCall("create_room", o))
    /\ srvPc' = "create_dispatch"
    /\ UNCHANGED <<agentVars, routerVars, calVars, srvEnv, request, prospect,
                   calendarFree, response, toolReply>>

\* CreateDispatch that tolerates a failure the way create_room does
CreateDispatch_Tolerant(o) ==
    /\ srvPc = "create_dispatch"
    /\ extCalls' = Append(extCalls, ExtCall("create_dispatch", o))
    /\ response' = response
    /\ srvPc' = "create_sip"
    /\ UNCHANGED <<agentVars, routerVars, calVars, srvEnv, request, prospect,
                   calendarFree, toolReply>>

\* dispatch_info = await lk_api.agent_dispatch.create_dispatch(dispatch_request)
CreateDispatch(o) ==
    /\ srvPc = "create_dispatch"
    /\ extCalls' = Append(extCalls, ExtCall("create_dispatch", o))
    /\ IF o = "ok" THEN response' = response /\ srvPc' = "create_sip"
       ELSE MakeCallFailed
    /\ UNCHANGED <<agentVars, routerVars, calVars, srvEnv, request, prospect,
                   calendarFree, toolReply>>

\* sip_info = await lk_api.sip.create_sip_participant(sip_request)
CreateSipParticipant(o) ==
    /\ srvPc = "create_sip"
    /\ extCalls' = Append(extCalls, ExtCall("create_sip_participant", o))
    /\ IF o = "ok" THEN response' = response /\ srvPc' = "log_call"
       ELSE MakeCallFailed
    /\ UNCHANGED <<agentVars, routerVars, calVars, srvEnv, request, prospect,
                   calendarFree, toolReply>>

\* what the prospects query gives
SelectResults == {"raise", "empty", "row"}

\* prospect = prospect_result.data[0] if prospect_result.data else None
ProspectAfterSelect(sel) ==
    CASE sel = "raise" -> "unbound"
      [] sel = "empty" -> "none"
      [] sel = "row" -> "found"

\* if prospect: update_data = {"last_called": datetime.utcnow().isoformat(), ...}
\* datetime is the module here (import datetime), so building update_data
\* raises AttributeError and the update is never sent
UpdateProspect(logged) == logged

\* the Supabase calls of the logging block, which ends at the first exception
LogCalls(sel, ins) ==
    IF sel = "raise" THEN <<ExtCall("select_prospect", "raise")>>
    ELSE IF ins = "raise"
    THEN <<ExtCall("select_prospect", "ok"), ExtCall("insert_call_log", "raise")>>
    ELSE IF sel = "row"
    THEN UpdateProspect(<<ExtCall("select_prospect", "ok"), ExtCall("insert_call_log", "ok")>>)
    ELSE <<ExtCall("select_prospect", "ok"), ExtCall("insert_call_log", "ok")>>

\* try: supabase = get_supabase_client(); if supabase: ...
\* except Exception as log_error: logging.error(...)
LogCall(sel, ins) ==
    /\ srvPc = "log_call"
    /\ IF srvEnv.supabase
       THEN /\ extCalls' = extCalls \o LogCalls(sel, ins)
            /\ prospect' = ProspectAfterSelect(sel)
       ELSE UNCHANGED <<extCalls, prospect>>
    /\ srvPc' = "make_call_return"
    /\ UNCHANGED <<agentVars, routerVars, calVars, srvEnv, request, calendarFree,
                   response, toolReply>>

\* return {..., "prospect_id": prospect_id if prospect else None}: reading the
\* unbound local raises UnboundLocalError, which the outer except clause takes
MakeCallReturn ==
    /\ srvPc = "make_call_return"
    /\ IF prospect = "unbound"
       THEN MakeCallFailed
       ELSE Respond(HTTP_OK, [success |-> TRUE, room_name |-> request.room_name,
                              call_id |-> "newport_caller",
                              phone_number |-> request.dial,
                              prospect_id |-> prospect])
    /\ UNCHANGED <<agentVars, routerVars, calVars, srvEnv, request, extCalls, prospect,
                   calendarFree, toolReply>>

\* booking_data.get('start_time'): absent (None), empty or a time
TimeFields == {"absent", "", "2024-08-27T10:00:00-07:00"}
\* not start_time
Falsy(field) == field \in {"absent", ""}

\* what calendar_service.create_event gives
EventResults == {"success", "failure", "raise"}

\* book_appointment: except Exception as e:
\*     raise HTTPException(status_code=500, detail=f"Failed to book appointment: ...")
\* (HTTPException is an Exception, so the handler's own HTTPException is taken too)
BookExcept(status) == HTTP_SERVER_ERROR

\* the calls book_appointment makes for valid times
BookCalls(ev, ins, supabase) ==
    IF ev # "success" THEN <<ExtCall("create_event", ev)>>
    ELSE IF supabase THEN <<ExtCall("create_event", "ok"), ExtCall("insert_lead", ins)>>
    ELSE <<ExtCall("create_event", "ok")>>

\* POST /api/calendar/book
BookAppointment(start_time, end_time, ev, ins) ==
    /\ srvPc = "idle"
    /\ request' = [endpoint |-> "book", start_time |-> start_time,
                   end_time |-> end_time]
    /\ IF Falsy(start_time) \/ Falsy(end_time)
       THEN /\ Respond(BookExcept(HTTP_BAD_REQUEST),
                       [detail |-> "Failed to book appointment: start_time and end_time are required"])
            /\ extCalls' = extCalls
       ELSE /\ extCalls' = extCalls \o BookCalls(ev, ins, srvEnv.supabase)
            /\ IF ev = "success"
               THEN Respond(HTTP_OK, [success |-> TRUE])
               ELSE Respond(BookExcept(HTTP_SERVER_ERROR),
                            [detail |-> "Failed to book appointment"])
    /\ UNCHANGED <<agentVars, routerVars, calVars, srvEnv, prospect, calendarFree,
                   toolReply>>

\* request_data.get(...) of a text field: absent (None), empty or a text
TextFields == {"absent", "", "Ann"}

\* AllPresent that does not ask for the phone number
AllPresent_NoPhone(guest_name, guest_phone, start_time, end_time) ==
    ~Falsy(guest_name) /\ ~Falsy(start_time) /\ ~Falsy(end_time)

\* all([guest_name, guest_phone, start_time, end_time])
AllPresent(guest_name, guest_phone, start_time, end_time) ==
    ~Falsy(guest_name) /\ ~Falsy(guest_phone) /\ ~Falsy(start_time) /\ ~Falsy(end_time)

NEED_FIELDS == "I need your name, phone number, and preferred time to book the appointment."
BOOKED == "Perfect! I've booked your appointment"
NOT_BOOKED == "I wasn't able to book that appointment. The time slot might no longer be available."
BOOK_TROUBLE == "I'm having trouble booking the appointment right now."
BOOK_ERROR == "I encountered an error while booking your appointment."

\* what the POST to /api/calendar/book inside book_calendar_appointment gives:
\* 200 with success, 200 without, another status, or an exception
BookReplies == {"success", "no_success", "other_status", "raise"}

\* agent_functions.book_calendar_appointment: its return value
BookingResult(reply) ==
    CASE reply = "success" -> [success |-> TRUE, message |-> BOOKED]
      [] reply = "no_success" -> [success |-> FALSE, message |-> NOT_BOOKED]
      [] reply = "other_status" -> [success |-> FALSE, message |-> BOOK_TROUBLE]
      [] reply = "raise" -> [success |-> FALSE, message |-> BOOK_ERROR]

\* POST /api/agent/book-appointment
AgentBookAppointment(guest_name, guest_phone, start_time, end_time, reply) ==
    /\ srvPc = "idle"
    /\ request' = [endpoint |-> "agent_book", guest_name |-> guest_name,
                   guest_phone |-> guest_phone, start_time |-> start_time,
                   end_time |-> end_time]
    /\ IF AllPresent(guest_name, guest_phone, start_time, end_time)
       THEN /\ extCalls' = Append(extCalls,
                    [call |-> "post_calendar_book", ok |-> (reply = "success")])
            /\ Respond(HTTP_OK, BookingResult(reply))
       ELSE /\ extCalls' = extCalls
            /\ Respond(HTTP_OK, [success |-> FALSE, message |-> NEED_FIELDS])
    /\ UNCHANGED <<agentVars, routerVars, calVars, srvEnv, prospect,
                   calendarFree, toolReply>>

\* request dates of the availability tool
Dates == {"", "2024-08-27"}
FreeSlots == UNION {[1..n -> {"09:00 AM"}] : n \in 0..MaxFree}

\* BookingAgent.check_calendar_availability: session.post(url, json=payload)
ToolPost(date) ==
    /\ srvPc = "idle"
    /\ request' = [endpoint |-> "agent_check_availability", date |-> date]
    /\ srvPc' = "agent_check"
    /\ UNCHANGED <<agentVars, routerVars, calVars, srvEnv, extCalls, prospect,
                   calendarFree, response, toolReply>>

\* main.check_calendar_availability, the function of GET
\* /api/calendar/availability (this definition replaces the function of the
\* same name imported from agent_functions): its return value
AvailabilityResult(date, slots) ==
    [success |-> TRUE, date |-> date, available_slots |-> slots,
     total_slots |-> Len(slots)]

\* POST /api/agent/check-availability: result = await check_calendar_availability(date, duration)
AgentCheckAvailability(slots, o) ==
    /\ srvPc = "agent_check"
    /\ IF request.date = ""
       THEN /\ response' = [status |-> HTTP_OK, body |->
                  [success |-> FALSE,
                   message |-> "Please provide a date to check availability."]]
            /\ UNCHANGED <<extCalls, calendarFree>>
       ELSE /\ extCalls' = Append(extCalls, ExtCall("check_availability", o))
            /\ IF o = "ok"
               THEN /\ calendarFree' = slots
                    /\ response' = [status |-> HTTP_OK,
                                    body |-> AvailabilityResult(request.date, slots)]
               ELSE /\ calendarFree' = calendarFree
                    /\ response' = [status |-> HTTP_OK, body |->
                          [success |-> FALSE,
                           message |-> "I'm having trouble checking the calendar right now."]]
    /\ srvPc' = "tool_reply"
    /\ UNCHANGED <<agentVars, routerVars, calVars, srvEnv, request, prospect, toolReply>>

\* dict.get(key, default)
Get(dict, key, default) == IF key \in DOMAIN dict THEN dict[key] ELSE default

REPLY_TIMES == "I have these times available on"
REPLY_NONE == "I don't have any available appointment slots on"
REPLY_TROUBLE == "I'm having trouble accessing the calendar system right now. Would you like to try a different date?"

\* what the tool makes of the response body
ReplyFor(data) ==
    IF Get(data, "success", FALSE)
    THEN LET available_times == Get(data, "available_times", <<>>) IN
         IF available_times # <<>>
         THEN [text |-> REPLY_TIMES, times |-> available_times]
         ELSE [text |-> REPLY_NONE, times |-> <<>>]
    ELSE [text |-> Get(data, "message", "I'm having trouble checking availability right now."),
          times |-> <<>>]

\* the tool reads the response, or the POST has failed
ToolReply(o) ==
    /\ srvPc = "tool_reply"
    /\ toolReply' = IF o = "ok" THEN ReplyFor(response.body)
                    ELSE [text |-> REPLY_TROUBLE, times |-> <<>>]
    /\ srvPc' = "replied"
    /\ UNCHANGED <<agentVars, routerVars, calVars, srvEnv, request, extCalls, prospect,
                   calendarFree, response>>

ServerInit ==
    /\ AgentIdle
    /\ RouterIdle
    /\ CalIdle
    /\ srvEnv \in [livekit : BOOLEAN, sip_trunk : BOOLEAN, supabase : BOOLEAN]
    /\ ServerStart

ServerNext ==
    \/ \E ph \in PhoneNumbers, id \in CallIds : MakeCall(ph, id)
    \/ \E o \in Outcomes : CreateRoom(o)
    \/ \E o \in Outcomes : CreateDispatch(o)
    \/ \E o \in Outcomes : CreateSipParticipant(o)
    \/ \E sel \in SelectResults, ins \in Outcomes : LogCall(sel, ins)
    \/ MakeCallReturn
    \/ \E st \in TimeFields, en \in TimeFields, ev \in EventResults, ins \in Outcomes :
          BookAppointment(st, en, ev, ins)
    \/ \E gn \in TextFields, gp \in TextFields, st \in TimeFields, en \in TimeFields,
          reply \in BookReplies : AgentBookAppointment(gn, gp, st, en, reply)
    \/ \E d \in Dates : ToolPost(d)
    \/ \E slots \in FreeSlots, o \in Outcomes : AgentCheckAvailability(slots, o)
    \/ \E o \in Outcomes : ToolReply(o)

ServerSpec == ServerInit /\ [][ServerNext]_vars

\* -------------------------------------------------------- calendar service
\* times are minutes since 00:00 of the first day, on the clock of start_date
DAY == 1440                   \* timedelta(days=1)
OPEN_HOUR == 9
CLOSE_HOUR == 18
SLOT_STEP == 30               \* timedelta(minutes=30)
MAX_SLOTS == 8

\* start_date: midnight (as GET /api/calendar/availability passes it), 16:30
\* and 17:15
StartTimes == {0, 990, 1035}
RangeLengths == {120, DAY}
Durations == {30, 60}
\* busy lists of the freebusy answer: 09:00-17:30 and 10:00-11:00
BusyLists == {<<>>,
              <<[start |-> 540, end |-> 1050]>>,
              <<[start |-> 600, end |-> 660]>>,
              <<[start |-> 600, end |-> 660], [start |-> 540, end |-> 1050]>>}

\* datetime.hour
Hour(t) == (t \div 60) % 24

\* if not self.service: if not self.authenticate(): return []
Authenticate(o) ==
    /\ calPc = "called"
    /\ calPc' = IF o = "ok" THEN "freebusy" ELSE "returned"
    /\ UNCHANGED <<agentVars, routerVars, serverVars, calArgs, busy_times,
                   current_time, available_slots>>

\* freebusy_result = self.service.freebusy().query(...).execute();
\* available_slots = []; current_time = start_time
\* except HttpError: return []
FreeBusyQuery(o, busy) ==
    /\ calPc = "freebusy"
    /\ IF o = "ok"
       THEN /\ busy_times' = busy
            /\ current_time' = calArgs.start
            /\ calPc' = "loop"
       ELSE /\ UNCHANGED <<busy_times, current_time>>
            /\ calPc' = "returned"
    /\ UNCHANGED <<agentVars, routerVars, serverVars, calArgs, available_slots>>

\* Conflicts that looks only at where the slot starts
Conflicts_StartOnly(slot_start, slot_end, busy) ==
    busy.start <= slot_start /\ slot_start < busy.end

\* current_time < busy_end and slot_end > busy_start
Conflicts(slot_start, slot_end, busy) ==
    slot_start < busy.end /\ slot_end > busy.start

\* is_available after the for loop over busy_times
IsAvailable(slot_start, slot_end, busy_list) ==
    \A i \in DOMAIN busy_list : ~Conflicts(slot_start, slot_end, busy_list[i])

\* the freebusy answer carries UTC offsets; comparing its times with a
\* start_date that has none raises TypeError
ComparisonRaises(aware, busy_list) == ~aware /\ busy_list # <<>>

\* current_time.hour < 9 or current_time.hour >= 18
OutsideHours(t) == Hour(t) < OPEN_HOUR \/ Hour(t) >= CLOSE_HOUR

Slot(slot_start, slot_end) == [start |-> slot_start, end |-> slot_end]

\* one test of the while condition and, when it holds, one pass of the body
SlotStep ==
    /\ calPc = "loop"
    /\ LET slot_end == current_time + calArgs.duration IN
       IF slot_end > calArgs.end
       THEN \* return available_slots
            /\ calPc' = "returned"
            /\ UNCHANGED <<current_time, available_slots>>
       ELSE IF OutsideHours(current_time)
       THEN /\ current_time' = current_time + SLOT_STEP
            /\ UNCHANGED <<calPc, available_slots>>
       ELSE IF ComparisonRaises(calArgs.aware, busy_times)
       THEN \* except Exception: return []
            /\ available_slots' = <<>>
            /\ calPc' = "returned"
            /\ UNCHANGED current_time
       ELSE /\ available_slots' =
                 IF IsAvailable(current_time, slot_end, busy_times)
                 THEN Append(available_slots, Slot(current_time, slot_end))
                 ELSE available_slots
            /\ current_time' = current_time + SLOT_STEP
            /\ calPc' = IF Len(available_slots') >= MAX_SLOTS THEN "returned"
                        ELSE "loop"
    /\ UNCHANGED <<agentVars, routerVars, serverVars, calArgs, busy_times>>

CalInit ==
    /\ AgentIdle
    /\ RouterIdle
    /\ ServerIdle
    /\ calArgs \in {[start |-> st, end |-> st + len, duration |-> d, aware |-> a] :
                      st \in StartTimes, len \in RangeLengths, d \in Durations,
                      a \in BOOLEAN}
    /\ CalStart

CalNext ==
    \/ \E o \in Outcomes : Authenticate(o)
    \/ \E o \in Outcomes, busy \in BusyLists : FreeBusyQuery(o, busy)
    \/ SlotStep

CalSpec == CalInit /\ [][CalNext]_vars

\* ------------------------------------------------------------------ claims
Count(seq, x) == Cardinality({i \in 1..Len(seq) : seq[i] = x})
AcloseCount == Count(calls, "aclose")
ShutdownCount == Count(calls, "shutdown")
LeadAgent == agentKind \in {"inbound", "outbound"}
AwayDelivered ==
    /\ nEvents' = nEvents + 1
    /\ lastEvent' = [type |-> "user_state_changed", arg |-> "away"]

\* C1: in the inbound and outbound agents, an away event received while the
\* form-displayed flag is true does not set the session-ended signal, and an
\* away event received while the flag is false sets it.
C1_AwayRespectsForm ==
    [][(LeadAgent /\ AwayDelivered) =>
         IF is_form_displayed
         THEN session_ended' = session_ended
         ELSE session_ended']_vars

\* C1 witness: an away event was the last callback, the form is displayed and
\* the entrypoint is still waiting on an unset session-ended signal.
C1_Witness ==
    /\ LeadAgent
    /\ lastEvent = [type |-> "user_state_changed", arg |-> "away"]
    /\ is_form_displayed
    /\ ~session_ended
    /\ pc = "wait"

Terminated == pc = "done" /\ ShutdownCount = 1

C3_Counts ==
    /\ AcloseCount <= 1
    /\ ShutdownCount <= 1
    /\ pc = "done" => ShutdownCount = 1

C3_Stable ==
    /\ session_ended => session_ended'
    /\ pc = "done" => pc' = "done"
    /\ (session_ended /\ nEvents' = nEvents + 1) => UNCHANGED entryVars
    /\ ShutdownCount = 1 => calls' = calls

\* C3: for any sequence of end triggers the teardown happens once:
\* session.aclose is invoked at most once, ctx.shutdown at most once and
\* exactly once when the entrypoint has returned; once the session-ended
\* signal is set it stays set, a further trigger changes nothing of the
\* entrypoint, and nothing is called after ctx.shutdown.
C3_TeardownOnce == [](C3_Counts) /\ [][C3_Stable]_vars

\* C3 witness: the booking agent's greeting timeout and a participant
\* disconnect both ended the session, and the entrypoint has returned.
C3_Witness ==
    /\ agentKind = "booking"
    /\ ~greeting_allowed
    /\ passedWait
    /\ lastEvent.type = "participant_disconnected"
    /\ pc = "done"
    /\ AcloseCount = 1
    /\ ShutdownCount = 1

IndexOf(seq, x) == CHOOSE i \in 1..Len(seq) : seq[i] = x

C4_Order ==
    (passedWait /\ ShutdownCount > 0) =>
        /\ AcloseCount = 1
        /\ IndexOf(calls, "aclose") < IndexOf(calls, "shutdown")

\* C4: once the wait on the session-ended signal has returned (the terminal
\* state), session.aclose is invoked and then ctx.shutdown is issued, in this
\* order, also when session.aclose raises.
C4_CloseThenShutdown ==
    /\ [](C4_Order)
    /\ passedWait ~> (Terminated /\ AcloseCount = 1)

\* C4 witness: session.aclose raised after the wait, and ctx.shutdown was issued.
C4_Witness ==
    /\ passedWait
    /\ excLogged
    /\ pc = "done"
    /\ calls[Len(calls)] = "shutdown"
    /\ calls[Len(calls) - 1] = "aclose"

SessionWasStarted == sessionState \in {"started", "closed"}

\* C5: an exception raised during entrypoint setup is logged and takes the
\* teardown of a normal end of call: when the entrypoint has returned after a
\* logged exception, ctx.shutdown was issued and, if the session had been
\* started, session.aclose was invoked.
C5_ExceptionFunnelsToTeardown ==
    (pc = "done" /\ excLogged) =>
        /\ ShutdownCount = 1
        /\ SessionWasStarted => AcloseCount = 1

TaskIds == 1..Len(tasks)
Ended(t) == t.pc \in {"finished", "raised"}

\* C6: whatever vendor call or lead submission fails, no exception leaves the
\* entrypoint or the submit_lead_form handler: the entrypoint is never left by
\* an exception, a logged exception continues at ctx.shutdown, and every
\* handler call returned "SUCCESS".
C6_NoErrorEscapes ==
    /\ pc # "raised"
    /\ excLogged => pc \in {"shutdown", "except_shutdown", "done"}
    /\ Len(rpcResults) = Len(tasks)
    /\ \A i \in 1..Len(rpcResults) : rpcResults[i] = "SUCCESS"

\* C6 witness: a vendor call of the entrypoint raised, a submission task died
\* of a failing session.say, and the entrypoint returned.
C6_Witness ==
    /\ pc = "done"
    /\ excLogged
    /\ Len(tasks) = 1
    /\ tasks[1].pc = "raised"
    /\ rpcResults = <<"SUCCESS">>

\* C7: every submission marks the form as not displayed: the step in which
\* _process_submission starts to process a submission leaves the
\* form-displayed flag false, whether or not the webhook URL is set.
C7_SubmissionClearsForm ==
    [][\A i \in TaskIds :
         (tasks[i].pc = "created" /\ tasks'[i].pc # "created")
             => ~is_form_displayed']_vars

Is2xx(status) == status \in 200..299
Said(t, line) == Count(t.says, line)

\* C8: for every completed HTTP exchange, a 2xx status makes the task say the
\* thank-you line once and never the error-sending line, any other status
\* makes it say the error-sending line once and never the thank-you line, and
\* the line is the first thing the task says.
C8_LineByStatusClass ==
    \A i \in TaskIds :
        LET t == tasks[i] IN
        IF t.status \in Statuses
        THEN /\ Len(t.says) >= 1
             /\ t.says[1] = (IF Is2xx(t.status) THEN THANKS ELSE ERR_SENDING)
             /\ Said(t, THANKS) = (IF Is2xx(t.status) THEN 1 ELSE 0)
             /\ Said(t, ERR_SENDING) = (IF Is2xx(t.status) THEN 0 ELSE 1)
        ELSE Said(t, THANKS) = 0 /\ Said(t, ERR_SENDING) = 0

\* C8 witness: a status at the edge of the 2xx class was answered with the
\* error-sending line, and the task has finished.
C8_Witness ==
    /\ Len(tasks) = 1
    /\ tasks[1].status = 300
    /\ tasks[1].says = <<ERR_SENDING>>
    /\ tasks[1].pc = "finished"

\* a submission that failed: the POST raised, the status is not 2xx, or the
\* payload was not JSON (seen only when the webhook URL is set)
NetworkFailed(t) == t.status = NetworkError
Non2xx(t) == t.status \in Statuses /\ ~Is2xx(t.status)
Malformed(t) == webhookUrlSet /\ t.payload = "malformed" /\ t.pc # "created"
Failed(t) == NetworkFailed(t) \/ Non2xx(t) \/ Malformed(t)

\* C9 as stated: a network failure, a non-2xx response and a malformed payload
\* each make the agent say the same apology, the line a non-2xx response gets.
C9_SingleApology ==
    \A i \in TaskIds :
        Failed(tasks[i]) => tasks[i].says[1] = ResponseLine(500)

\* C9 amended: every failed submission makes the agent say an apology first,
\* but not one and the same: a non-2xx response gets the error-sending line,
\* a network failure and a malformed payload get the technical-error line.
C9_ApologyByErrorKind ==
    \A i \in TaskIds :
        LET t == tasks[i] IN
        /\ Non2xx(t) => (Len(t.says) >= 1 /\ t.says[1] = ERR_SENDING)
        /\ (NetworkFailed(t) \/ Malformed(t))
              => (Len(t.says) >= 1 /\ t.says[1] = ERR_TECHNICAL)

\* C9 witness: the POST raised and the task said the technical-error line.
C9_Witness ==
    /\ Len(tasks) = 1
    /\ NetworkFailed(tasks[1])
    /\ tasks[1].says = <<ERR_TECHNICAL>>
    /\ tasks[1].pc = "finished"

C10_AtMostOnePost ==
    /\ Len(tasks) = Len(rpcResults)
    /\ \A i \in TaskIds :
        /\ tasks[i].posts <= 1
        /\ (~webhookUrlSet \/ tasks[i].payload = "malformed") => tasks[i].posts = 0

C10_NoResend ==
    \A i \in TaskIds :
        /\ (Failed(tasks[i]) \/ tasks[i].posts = 1) => tasks'[i].posts = tasks[i].posts
        /\ Ended(tasks[i]) => tasks'[i] = tasks[i]

\* C10: each submit_lead_form invocation creates one task that posts to the
\* webhook at most once (never without a webhook URL or with a malformed
\* payload); after a failure the task posts no more, and once the task has
\* ended nothing touches it again: no retry, no queue.
C10_NoRetry == [](C10_AtMostOnePost) /\ [][C10_NoResend]_vars

\* C10 witness: the webhook answered 500, the task apologised and ended after
\* its single POST.
C10_Witness ==
    /\ Len(tasks) = 1
    /\ tasks[1].status = 500
    /\ tasks[1].posts = 1
    /\ tasks[1].pc = "finished"

InFlight == \E i \in TaskIds : tasks[i].pc = "post"

C11_HandlerStep ==
    Len(rpcResults') = Len(rpcResults) + 1 =>
        /\ rpcResults'[Len(rpcResults')] = "SUCCESS"
        /\ calls' = Append(calls, "interrupt")
        /\ Len(tasks') = Len(tasks) + 1
        /\ tasks'[Len(tasks')].pc = "created"
        /\ tasks'[Len(tasks')].posts = 0
        /\ tasks'[Len(tasks')].says = <<>>

C11_EventsWhileInFlight ==
    (InFlight /\ pc \in AwaitPoints /\ nEvents < MaxEvents) =>
        /\ ENABLED OnParticipantDisconnected
        /\ sessionState = "started" => ENABLED OnUserStateChanged("away")

\* C11: every submit_lead_form call, in one step and for every payload and
\* configuration, interrupts the speech, creates the dispatch task without
\* running it (no POST sent, nothing said) and returns "SUCCESS"; while a POST
\* is in flight and the entrypoint is suspended, participant_disconnected and
\* user_state_changed callbacks can still be delivered.
C11_DetachedDispatch == [](C11_EventsWhileInFlight) /\ [][C11_HandlerStep]_vars

\* C11 witness: the handler returned, the POST of its task is in flight, and
\* a participant_disconnected callback has ended the session meanwhile.
C11_Witness ==
    /\ rpcResults = <<"SUCCESS">>
    /\ calls[Len(calls)] = "interrupt"
    /\ tasks[1].pc = "post"
    /\ lastEvent = [type |-> "participant_disconnected", arg |-> "wait"]
    /\ pc = "aclose"

HasWord(name, variants) == \E i \in DOMAIN name : name[i] \in variants
OutboundNamed(name) == HasWord(name, {"outbound", "OUTBOUND"})
NewportNamed(name) == HasWord(name, {"newport", "Newport"})

\* C12: every job whose room name contains "outbound" (in any letter case) gets
\* the outbound script, every other one whose name contains "newport" the
\* inbound Newport greeting, and every remaining one the default script; the
\* newport_outbound_<id> rooms of make_call are among the first.
C12_RoutingByRoomName ==
    routerPc = "routed" =>
        IF OutboundNamed(job.room_name)
        THEN script = [instructions |-> "outbound-prompt.template",
                       greeting |-> OUTBOUND_GREETING]
        ELSE IF NewportNamed(job.room_name)
        THEN script.greeting = NEWPORT_GREETING
        ELSE script = [instructions |-> "prompt.template",
                       greeting |-> DEFAULT_GREETING]

\* C20: request_fnc makes exactly one accept or reject call per job request; the
\* outbound worker accepts (as ashley-outbound) exactly the rooms whose name
\* contains "outbound" in any letter case and rejects the others; the inbound
\* worker accepts every room (as newport-rentals).
C20_RequestFnc ==
    /\ routerPc \in {"idle", "request"} => reqCalls = <<>>
    /\ routerPc \in {"entry", "rejected", "failed", "routed"} =>
        /\ Len(reqCalls) = 1
        /\ job.agent_name = "ashley-outbound" =>
             reqCalls[1] = IF OutboundNamed(job.room_name)
                           THEN [call |-> "accept", identity |-> "ashley-outbound"]
                           ELSE [call |-> "reject", identity |-> "none"]
        /\ job.agent_name = "newport-rentals" =>
             reqCalls[1] = [call |-> "accept", identity |-> "newport-rentals"]

\* C20 witness: the outbound worker accepted a room named in capitals
C20_Witness ==
    /\ routerPc = "entry"
    /\ job.agent_name = "ashley-outbound"
    /\ job.room_name = <<"demo", "OUTBOUND">>
    /\ reqCalls = <<[call |-> "accept", identity |-> "ashley-outbound"]>>

Greeted == Count(calls, "say") > 0

\* the track_subscribed events that may set the flag, per agent
UserAudio(kind) ==
    IF kind = "booking"
    THEN {"audio:user", "audio:chat-to-form-agent"}
    ELSE {"audio:user", "audio:newport-rentals"}

C13_FlagSetByUserAudio ==
    (~greeting_allowed /\ greeting_allowed') =>
        /\ lastEvent'.type = "track_subscribed"
        /\ lastEvent'.arg \in UserAudio(agentKind)

\* C13 as stated: in every entrypoint the greeting is spoken only after a
\* track_subscribed event of a participant's audio track has set
\* greeting_allowed.
C13_GreetingGated == Greeted => greeting_allowed

\* C13, amended: the booking agent speaks its greeting only when
\* greeting_allowed is set, and in every agent that flag is set only by a
\* track_subscribed event for an audio track whose participant identity does not
\* begin with the prefix the handler takes for the agent (a video track or an
\* audio track of that prefix leaves it unset).
C13_BookingGreetingGated ==
    /\ []((agentKind = "booking" /\ Greeted) => greeting_allowed)
    /\ [][C13_FlagSetByUserAudio]_vars

\* C13 witness: the booking agent has greeted after a user's audio track
C13_Witness ==
    /\ agentKind = "booking"
    /\ Greeted
    /\ greeting_allowed
    /\ lastEvent = [type |-> "track_subscribed", arg |-> "audio:user"]

\* C14: without a TTS client no session.say is attempted for the greeting, and
\* a session that was started, has its RPC method registered and has not been
\* ended by a disconnect or away event is not torn down.
C14_MutedOperation ==
    ~ttsAvailable =>
        /\ ~Greeted
        /\ (sessionState = "started" /\ rpcRegistered /\ ~session_ended) =>
              (pc \notin {"shutdown", "done"} /\ ~excLogged)

LiveKitMissing == LeadAgent /\ livekitEnv # LiveKitVars

C15_ExitAtStartup ==
    LiveKitMissing =>
        /\ pc \in {"main", "exit1"}
        /\ calls = <<>>
        /\ sessionState = "none"

\* C15 as stated: a worker with a LIVEKIT_* variable unset stops at startup
\* before run_app and before any job, and no session is started in a lead
\* agent's process whose WEBHOOK_URL is unset.
C15_ConfigDetectedAtStartup ==
    /\ C15_ExitAtStartup
    /\ (LeadAgent /\ SessionWasStarted) => webhookUrlSet

\* C15, amended: a worker with a LIVEKIT_* variable unset stops at startup
\* before run_app and before any job; an unset WEBHOOK_URL is found only when a
\* lead is submitted during a call: the task then sends no POST and says the
\* configuration-error line, which is said in no other case.
C15_LiveKitCheckedAtStartup ==
    /\ C15_ExitAtStartup
    /\ \A i \in TaskIds :
          /\ (~webhookUrlSet /\ tasks[i].pc # "created") =>
                (tasks[i].says = <<ERR_CONFIG>> /\ tasks[i].posts = 0)
          /\ Said(tasks[i], ERR_CONFIG) > 0 =>
                (~webhookUrlSet /\ SessionWasStarted)

\* C15 witness: LIVEKIT_API_KEY alone is unset and the worker has exited
C15_Witness ==
    /\ LeadAgent
    /\ livekitEnv = {"LIVEKIT_URL", "LIVEKIT_API_SECRET"}
    /\ pc = "exit1"
    /\ calls = <<>>

SipCreated ==
    \E i \in DOMAIN extCalls :
        extCalls[i] = [call |-> "create_sip_participant", ok |-> TRUE]

\* C16: whenever make_call has responded after the SIP participant was created,
\* the response is the success response (status 200, success true, with
\* room_name, call_id and phone_number), whatever the database did.
C16_LoggingNeverFailsCall ==
    (request.endpoint = "make_call" /\ srvPc = "responded" /\ SipCreated) =>
        /\ response.status = HTTP_OK
        /\ response.body.success
        /\ {"room_name", "call_id", "phone_number"} \subseteq DOMAIN response.body

\* C17: book_appointment answers a request whose start_time or end_time is
\* absent or empty with status 400 and creates no calendar event and no lead
\* row.
C17_MissingTimesGive400 ==
    (request.endpoint = "book" /\ srvPc = "responded"
        /\ (Falsy(request.start_time) \/ Falsy(request.end_time))) =>
        /\ response.status = HTTP_BAD_REQUEST
        /\ extCalls = <<>>

\* C18: the availability tool answers with the list of times whenever the
\* calendar service returned at least one free slot, and with the
\* no-availability reply only when the calendar service returned none.
C18_FaithfulAvailability ==
    (srvPc = "replied" /\ response.status = HTTP_OK /\ response.body.success) =>
        /\ calendarFree # <<>> => toolReply.text = REPLY_TIMES
        /\ toolReply.text = REPLY_NONE => calendarFree = <<>>

MinuteOfDay(t) == t % DAY

\* C19: every slot check_availability returns starts at or after 09:00 and
\* ends at or before 18:00 of the day it starts on.
C19_SlotsWithinBusinessHours ==
    calPc = "returned" =>
        \A i \in DOMAIN available_slots :
            LET slot == available_slots[i]
                midnight == slot.start - MinuteOfDay(slot.start) IN
            /\ slot.start >= midnight + 540
            /\ slot.end <= midnight + 1080

MakeCallOrder ==
    <<"create_room", "create_dispatch", "create_sip_participant",
      "select_prospect", "insert_call_log">>

Made(name) == \E i \in DOMAIN extCalls : extCalls[i].call = name
Failed500 == srvPc = "responded" /\ response.status = HTTP_SERVER_ERROR

\* C21: make_call makes its external calls in the order create_room,
\* create_dispatch, create_sip_participant, call logging, each at most once;
\* with the LiveKit credentials or SIP_TRUNK_ID unset it makes none and answers
\* 500; after a failed create_room it goes on to create_dispatch; a failed
\* create_dispatch gives 500 and no create_sip_participant; the call log is
\* touched only after the SIP participant was created.
C21_CallOrder ==
    request.endpoint = "make_call" =>
        /\ Len(extCalls) <= Len(MakeCallOrder)
        /\ \A i \in DOMAIN extCalls : extCalls[i].call = MakeCallOrder[i]
        /\ (~srvEnv.livekit \/ ~srvEnv.sip_trunk) => (extCalls = <<>> /\ Failed500)
        /\ Len(extCalls) = 1 => srvPc = "create_dispatch"
        /\ (Len(extCalls) >= 2 /\ ~extCalls[2].ok) =>
              (Failed500 /\ ~Made("create_sip_participant"))
        /\ (Made("select_prospect") \/ Made("insert_call_log")) => SipCreated

\* C21 witness: create_room failed, the call went on, the SIP participant was
\* created and the call log row written
C21_Witness ==
    /\ request.endpoint = "make_call"
    /\ srvPc = "responded"
    /\ response.status = HTTP_OK
    /\ extCalls[1] = [call |-> "create_room", ok |-> FALSE]
    /\ Len(extCalls) = 5
    /\ extCalls[5] = [call |-> "insert_call_log", ok |-> TRUE]

Blank(str, from, to) == \A k \in from..to : str[k] = " "

\* stripped is raw without its leading and trailing blanks
IsStripped(stripped, raw) ==
    \E i \in 1..(Len(raw) + 1), j \in 0..Len(raw) :
        /\ stripped = SubSeq(raw, i, j)
        /\ Blank(raw, 1, i - 1)
        /\ Blank(raw, j + 1, Len(raw))
        /\ stripped # <<>> => (stripped[1] # " " /\ stripped[Len(stripped)] # " ")

Dialled(stripped) ==
    IF stripped # <<>> /\ stripped[1] = "+" THEN stripped
    ELSE IF stripped # <<>> /\ stripped[1] = "1" THEN <<"+">> \o stripped
    ELSE <<"+", "1">> \o stripped

\* C22: for every phone number given to make_call, the number dialled is the
\* stripped input when that starts with "+", "+" and the stripped input when it
\* starts with "1", and "+1" and the stripped input otherwise; it starts with
\* "+", formatting it again leaves it unchanged, and it is the phone_number of
\* the success response.
C22_PhoneFormat ==
    request.endpoint = "make_call" =>
        /\ \E n \in 0..Len(request.phone_number) :
             \E stripped \in [1..n -> Chars] :
                /\ IsStripped(stripped, request.phone_number)
                /\ request.dial = Dialled(stripped)
        /\ request.dial[1] = "+"
        /\ FormatPhone(request.dial) = request.dial
        /\ (srvPc = "responded" /\ response.status = HTTP_OK) =>
              response.body.phone_number = request.dial

\* C22 witness: a number with blanks around it and no prefix was dialled with
\* +1 and the call succeeded
C22_Witness ==
    /\ request.endpoint = "make_call"
    /\ request.phone_number = <<" ", "5", " ">>
    /\ request.dial = <<"+", "1", "5">>
    /\ srvPc = "responded"
    /\ response.status = HTTP_OK

C23_Slots ==
    /\ Len(available_slots) <= 8
    /\ \A i \in DOMAIN available_slots :
          LET slot == available_slots[i] IN
          /\ \A k \in DOMAIN busy_times :
                ~(slot.start < busy_times[k].end /\ slot.end > busy_times[k].start)
          /\ slot.start >= calArgs.start
          /\ (slot.start - calArgs.start) % 30 = 0
          /\ slot.end = slot.start + calArgs.duration
          /\ slot.end <= calArgs.end
          /\ i > 1 => available_slots[i - 1].start < slot.start

\* a step from the call straight to the return is the failed authentication
C23_AuthFailure ==
    (calPc = "called" /\ calPc' = "returned") => available_slots' = <<>>

\* C23: no slot check_availability returns overlaps a busy interval of the
\* freebusy answer; the slots are in ascending order of start, on the
\* 30-minute grid that begins at the range start, each as long as the duration
\* and ending no later than the range end, and at most 8; when authentication
\* fails the result is empty.
C23_NoConflictingSlot == [](C23_Slots) /\ [][C23_AuthFailure]_vars

\* C23 witness: from midnight with 10:00-11:00 busy, eight one-hour slots were
\* returned, the first at 09:00 and the second at 11:00
C23_Witness ==
    /\ calPc = "returned"
    /\ calArgs.duration = 60
    /\ busy_times = <<[start |-> 600, end |-> 660]>>
    /\ Len(available_slots) = 8
    /\ available_slots[1].start = 540
    /\ available_slots[2].start = 660

AnyMissing ==
    \E f \in {request.guest_name, request.guest_phone, request.start_time,
              request.end_time} : f \in {"absent", ""}

\* C24: agent_book_appointment always answers with a returned result (status
\* 200, never an exception); with guest_name, guest_phone, start_time or
\* end_time absent or empty the result is success = false with the message
\* asking for name, phone number and time, and no booking request is made; with
\* all four present one booking request is made and its result is returned.
C24_AgentBooking ==
    (request.endpoint = "agent_book") =>
        /\ srvPc = "responded"
        /\ response.status = HTTP_OK
        /\ IF AnyMissing
           THEN /\ response.body = [success |-> FALSE, message |-> NEED_FIELDS]
                /\ extCalls = <<>>
           ELSE /\ Len(extCalls) = 1
                /\ extCalls[1].call = "post_calendar_book"
                /\ response.body.success = extCalls[1].ok
                /\ response.body.message \in {BOOKED, NOT_BOOKED, BOOK_TROUBLE, BOOK_ERROR}
                /\ response.body.success <=> response.body.message = BOOKED

\* C24 witness: the phone number alone was empty and nothing was booked
C24_Witness ==
    /\ request = [endpoint |-> "agent_book", guest_name |-> "Ann",
                  guest_phone |-> "", start_time |-> "2024-08-27T10:00:00-07:00",
                  end_time |-> "2024-08-27T10:00:00-07:00"]
    /\ response.body = [success |-> FALSE, message |-> NEED_FIELDS]
    /\ extCalls = <<>>

\* session.aclose() has been called (the entrypoint is suspended in it or past
\* it) or ctx.shutdown() has been called
TeardownBegun == pc = "aclose" \/ AcloseCount > 0 \/ ShutdownCount > 0

\* C25: once session.aclose has been invoked or ctx.shutdown called, no
\* _process_submission task makes another session.say call.
C25_NoSpeechAfterClose ==
    [][TeardownBegun =>
         \A i \in TaskIds : Len(tasks'[i].says) = Len(tasks[i].says)]_vars

====
